---- MODULE Spec2Model ----
(***************************************************************************)
(* Model of build-objects-inventory.py: the sequential pipeline            *)
(*   main -> render_figma_images -> download_current_confluence_page       *)
(*        -> update_confluence_page (attachments, templates, publish)      *)
(* together with its pure helpers (get_frame_id_from_url, the regular      *)
(* expressions of render_figma_png, populate_template).                    *)
(*                                                                         *)
(* Text.  A Python str is modelled as a sequence of symbols.  A symbol is  *)
(* either one character that some operation of the program looks at       *)
(* ("." "-" ":" "{" "}" "\n", one digit) or an atomic run of characters    *)
(* that every operation applied to the text takes or leaves as a whole     *)
(* ("desktop", "figma.com/", "node-id=", "/pages/").  str.replace,         *)
(* str.split, `in` and the regular expressions then act on symbols exactly *)
(* as they act on characters.                                              *)
(***************************************************************************)
EXTENDS Integers, Sequences, FiniteSets, TLC

VARIABLES
    \* ---- the pipeline (main) ----
    disk,            \* ./schemas/*.json: the parsed content of each file, in glob order
    fi,              \* main: index of the schema file being processed
    pc,              \* main: position of the run
    object_schema,   \* main: the schema loaded by json.load
    rendered_files,  \* render_figma_images: filenames rendered so far
    ui,              \* update_confluence_page: index of the next file to upload
    page_template,   \* update_confluence_page: the composed page body
    got,             \* update_page_content: title and version read by its GET
    err,             \* the exception that ended the run, if any
    log,             \* history: every outward call and file write, in order
    att,             \* document API: attachments held by the server
    nextId,          \* document API: next attachment id
    pages,           \* document API: title and version of every page
    edits,           \* number of edits of a page made by somebody else
    \* ---- populate_template on its own ----
    t_template,      \* the argument `template`
    t_data,          \* the argument `data`, in dict order
    t_text,          \* the local `template` as the loop rewrites it
    t_i,             \* index of the next key/value pair
    t_seen,          \* history: the text each pair found when its turn came
    t_status,        \* "idle", "loop", "returned", "KeyNotFound", "Unmatched"
    t_round,         \* 1: first application, 2: application to the first result
    t_first,         \* the text the first application returned
    \* ---- get_frame_id_from_url / the lookup of render_figma_png ----
    u_url,           \* the design-tool URL
    u_pc,            \* "start", "extracted", "looked_up", "no_node"
    u_node,          \* node_id as returned by get_frame_id_from_url
    u_key            \* the key used on json_result['images']

vars == << disk, fi, pc, object_schema, rendered_files, ui, page_template, got, err,
           log, att, nextId, pages, edits,
           t_template, t_data, t_text, t_i, t_seen, t_status, t_round, t_first,
           u_url, u_pc, u_node, u_key >>

pipeVars == << disk, fi, pc, object_schema, rendered_files, ui, page_template, got, err,
               log, att, nextId, pages, edits >>
tplVars == << t_template, t_data, t_text, t_i, t_seen, t_status, t_round, t_first >>
urlVars == << u_url, u_pc, u_node, u_key >>

(***************************************************************************)
(* Bounds of the model.                                                    *)
(***************************************************************************)
MaxFiles == 2        \* schema files in ./schemas
MaxEdits == 1        \* edits of a page by somebody else during the run
MaxPieces == 3       \* pieces a template text is built from
MaxPairs == 2        \* key/value pairs of `data`
MaxNodeLen == 3      \* symbols of a node-id value

(***************************************************************************)
(* Python str operations on sequences of symbols.                          *)
(***************************************************************************)
None == <<"None">>   \* Python's None where a str is expected (never a text: no text holds the symbol "None")

MatchAt(s, p, i) ==
    /\ i >= 1
    /\ i + Len(p) - 1 <= Len(s)
    /\ \A j \in 1..Len(p) : s[i + j - 1] = p[j]

\* `p in s`
Contains(s, p) == \E i \in 1..(Len(s) + 1) : MatchAt(s, p, i)

Count(s, p) == Cardinality({i \in 1..Len(s) : MatchAt(s, p, i)})

Min(S) == CHOOSE x \in S : \A y \in S : x <= y
Max(S) == CHOOSE x \in S : \A y \in S : x >= y

\* the occurrences of p in s at or after position i
MatchesFrom(s, p, i) == {k \in i..Len(s) : MatchAt(s, p, k)}

RECURSIVE ReplaceFrom(_, _, _, _)
ReplaceFrom(s, old, new, i) ==
    IF MatchesFrom(s, old, i) = {} THEN SubSeq(s, i, Len(s))
    ELSE LET k == Min(MatchesFrom(s, old, i))
         IN  SubSeq(s, i, k - 1) \o new \o ReplaceFrom(s, old, new, k + Len(old))

\* s.replace(old, new), old not empty: leftmost occurrences, not overlapping
str_replace(s, old, new) == ReplaceFrom(s, old, new, 1)

RECURSIVE SplitFrom(_, _, _)
SplitFrom(s, sep, i) ==
    IF MatchesFrom(s, sep, i) = {} THEN <<SubSeq(s, i, Len(s))>>
    ELSE LET k == Min(MatchesFrom(s, sep, i))
         IN  <<SubSeq(s, i, k - 1)>> \o SplitFrom(s, sep, k + Len(sep))

\* s.split(sep), sep not empty
str_split(s, sep) == SplitFrom(s, sep, 1)

\* the longest run of symbols of class cls starting at i
RunFrom(s, cls, i) ==
    SubSeq(s, i, Max({j \in (i - 1)..Len(s) : \A k \in i..j : s[k] \in cls}))

(***************************************************************************)
(* The regular expressions of get_frame_id_from_url and render_figma_png.  *)
(***************************************************************************)
Digits == {"0", "1", "2", "3", "4", "9"}
\* [\d:-]
NodeClass == Digits \cup {":", "-"}
\* symbols made of [a-zA-Z0-9] only
AlnumClass == Digits \cup {"file", "proto", "design", "K", "rHxTpbi2gpbZ4dmVlyeY2S", "A"}

\* re.search(r'node-id=([\d:-]+)', figma_url): the positions where it matches
NodeIdMatches(figma_url) ==
    {i \in 1..Len(figma_url) :
        /\ figma_url[i] = "node-id="
        /\ i + 1 <= Len(figma_url)
        /\ figma_url[i + 1] \in NodeClass}

get_frame_id_from_url(figma_url) ==
    IF NodeIdMatches(figma_url) # {}
    THEN str_replace(RunFrom(figma_url, NodeClass, Min(NodeIdMatches(figma_url)) + 1),
                     <<":">>, <<"%", "3", "A">>)
    ELSE None

\* re.search(r'figma\.com/(file|proto|design)/([a-zA-Z0-9]+)', figma_url)
FileKeyMatches(figma_url) ==
    {i \in 1..Len(figma_url) :
        /\ i + 3 <= Len(figma_url)
        /\ figma_url[i] = "figma.com/"
        /\ figma_url[i + 1] \in {"file", "proto", "design"}
        /\ figma_url[i + 2] = "/"
        /\ figma_url[i + 3] \in AlnumClass}

file_key_of(figma_url) ==
    IF FileKeyMatches(figma_url) # {}
    THEN RunFrom(figma_url, AlnumClass, Min(FileKeyMatches(figma_url)) + 3)
    ELSE None

\* json_result['images'][node_id.replace('-', ':')]: the key looked up
images_key(node_id) == str_replace(node_id, <<"-">>, <<":">>)

(***************************************************************************)
(* JSON values of an object schema: a str, null, or a mapping, held as the *)
(* set of its entries (key text, value).                                   *)
(***************************************************************************)
Str(s) == [t |-> "str", s |-> s, m |-> {}]
Null == [t |-> "null", s |-> <<>>, m |-> {}]
Dict(m) == [t |-> "dict", s |-> <<>>, m |-> m]

\* isinstance(v, dict) and key in v
Has(v, key) == v.t = "dict" /\ \E e \in v.m : e.k = key
\* v[key]
Get(v, key) == (CHOOSE e \in v.m : e.k = key).v

supported_schema_keys ==
    << <<"desktop", ".", "grid", "-", "view", ".", "vendor">>,
       <<"desktop", ".", "grid", "-", "view", ".", "operations">>,
       <<"desktop", ".", "grid", "-", "view", ".", "client">>,
       <<"desktop", ".", "details", "-", "view", ".", "vendor">>,
       <<"desktop", ".", "details", "-", "view", ".", "operations">>,
       <<"desktop", ".", "details", "-", "view", ".", "client">>,
       <<"desktop", ".", "infocard", "-", "view", ".", "vendor">>,
       <<"desktop", ".", "infocard", "-", "view", ".", "operations">>,
       <<"desktop", ".", "infocard", "-", "view", ".", "client">>,
       <<"state", "-", "diagram">>,
       <<"mobile", ".", "list", "-", "view", ".", "vendor">>,
       <<"mobile", ".", "list", "-", "view", ".", "operations">>,
       <<"mobile", ".", "list", "-", "view", ".", "client">>,
       <<"mobile", ".", "details", "-", "view", ".", "vendor">>,
       <<"mobile", ".", "details", "-", "view", ".", "operations">>,
       <<"mobile", ".", "details", "-", "view", ".", "client">> >>

NPaths == Len(supported_schema_keys)

TEMP_RENDER_FOLDER == <<"build">>

MISSING_FIGMA_PAGE_PLACEHOLDER ==
    <<"https://www.", "figma.com/", "design", "/", "rHxTpbi2gpbZ4dmVlyeY2S",
      "/Object-Diagrams?", "node-id=", "1", "4", "4", "9", "4", "-", "4", "1", "1",
      "&t=9t14B4asXC7wJTrH", "-", "0">>

\* keys = path.split('.')
path_keys(path) == str_split(path, <<".">>)

\* variant: the inner loop without the reset of last_key on a missing segment
RECURSIVE traverse_keeps_last_key(_, _, _)
traverse_keeps_last_key(last_value, keys, i) ==
    IF i > Len(keys)
    THEN [last_key |-> keys[Len(keys)], last_value |-> last_value]
    ELSE IF Has(last_value, keys[i])
         THEN traverse_keeps_last_key(Get(last_value, keys[i]), keys, i + 1)
         ELSE [last_key |-> keys[i], last_value |-> Null]

\* the inner loop of render_figma_images: follow keys[i..] from last_value
RECURSIVE traverse(_, _, _)
traverse(last_value, keys, i) ==
    IF i > Len(keys)
    THEN [last_key |-> keys[Len(keys)], last_value |-> last_value]
    ELSE IF Has(last_value, keys[i])
         THEN traverse(Get(last_value, keys[i]), keys, i + 1)
         ELSE [last_key |-> None, last_value |-> Null]

\* last_key, last_value after the inner loop for `path`
resolve(schema, path) == traverse(schema, path_keys(path), 1)

\* variant: the filename with the dots of the path left in
render_filename_dotted(object_name, path) ==
    object_name \o <<"-">> \o path \o <<".png">>

\* filename = object_name + '-' + path.replace('.', '-') + '.png'
render_filename(object_name, path) ==
    object_name \o <<"-">> \o str_replace(path, <<".">>, <<"-">>) \o <<".png">>

(***************************************************************************)
(* The history of outward calls.  Every entry has the same fields; a field *)
(* a call does not use keeps its default.  f: the schema file; idx: the    *)
(* path or the rendered file the call is for; n: the number of matches an  *)
(* attachment query returned; ok: whether the call succeeded.              *)
(***************************************************************************)
Call(op) ==
    [f |-> 0, op |-> op, idx |-> 0, page |-> <<>>, file |-> <<>>, url |-> <<>>,
     st |-> "", id |-> 0, n |-> 0, ver |-> 0, title |-> "", ok |-> TRUE]

NoErr == [kind |-> "none", path |-> <<>>]
Err(kind) == [kind |-> kind, path |-> <<>>]

\* every entry of calls, stamped with the schema file and the path index it belongs to
Stamp(calls, f, idx) == [k \in 1..Len(calls) |-> [calls[k] EXCEPT !.f = f, !.idx = idx]]

(***************************************************************************)
(* The rendering API as the program sees it.  `net` is what the network    *)
(* answers: "ok", "403", "http_error" (any other status of the API call),  *)
(* "image_null" (the API has no image for the node) or "download_error".   *)
(* The API decodes %3A and answers with the node id in colon form (the     *)
(* comment of line 72).                                                    *)
(***************************************************************************)
RenderNet == {"ok", "403", "http_error", "image_null", "download_error"}

api_node_key(node_id) ==
    str_replace(str_replace(node_id, <<"%", "3", "A">>, <<":">>), <<"-">>, <<":">>)

api_url_of(file_key, node_id) ==
    <<"https://api.figma.com/v1/images/">> \o file_key \o <<"?ids=">> \o node_id
        \o <<"&format=png&scale=2">>

image_url_of(file_key, node_id) ==
    <<"https://figma-images/">> \o file_key \o <<"/">> \o api_node_key(node_id)

\* render_figma_png(figma_url, out_filename, figma_token) for a Python value figma_url:
\* the calls it makes, in order, and the exception it raises ("none": it returns)
render_figma_png(figma_url, out_filename, net) ==
    LET entry == [Call("render_figma_png") EXCEPT !.url = figma_url.s, !.st = figma_url.t,
                                                  !.file = out_filename]
        file_key == file_key_of(figma_url.s)
        node_id == get_frame_id_from_url(figma_url.s)
        api == [Call("figma_images") EXCEPT !.url = api_url_of(file_key, node_id),
                                            !.ok = net \notin {"403", "http_error"}]
        dl == [Call("image_download") EXCEPT !.url = image_url_of(file_key, node_id),
                                             !.ok = net # "download_error"]
        wr == [Call("write_png") EXCEPT !.file = out_filename]
    IN  IF figma_url.t # "str"
        THEN [calls |-> <<entry>>, err |-> "TypeError"]
        ELSE IF file_key = None
        THEN [calls |-> <<entry>>, err |-> "ValueError_file_key"]
        ELSE IF node_id = None \/ node_id = <<>>
        THEN [calls |-> <<entry>>, err |-> "ValueError_node_id"]
        ELSE IF net = "403"
        THEN [calls |-> <<entry, api>>, err |-> "RuntimeError_403"]
        ELSE IF net = "http_error"
        THEN [calls |-> <<entry, api>>, err |-> "HTTPError"]
        ELSE IF images_key(node_id) # api_node_key(node_id)
        THEN [calls |-> <<entry, api>>, err |-> "KeyError_images"]
        ELSE IF net = "image_null"
        THEN [calls |-> <<entry, api>>, err |-> "MissingSchema"]
        ELSE IF net = "download_error"
        THEN [calls |-> <<entry, api, dl>>, err |-> "HTTPError"]
        ELSE [calls |-> <<entry, api, dl, wr>>, err |-> "none"]

\* variant: the iteration without the placeholder: a null link goes to the renderer
render_path_no_placeholder(schema, idx, net) ==
    LET path == supported_schema_keys[idx]
        r == resolve(schema, path)
        filename == render_filename(Get(schema, <<"name">>).s, path)
        png == render_figma_png(r.last_value, TEMP_RENDER_FOLDER \o <<"/">> \o filename, net)
    IN  IF r.last_key = None
        THEN [calls |-> <<>>, err |-> [kind |-> "ValueError_reference_not_found", path |-> path],
              filename |-> filename]
        ELSE [calls |-> png.calls, err |-> Err(png.err), filename |-> filename]

\* variant: the iteration with the reference check after the render of the placeholder
render_path_checks_late(schema, idx, net) ==
    LET path == supported_schema_keys[idx]
        r == resolve(schema, path)
        last_value == IF r.last_value.t = "null"
                      THEN Str(MISSING_FIGMA_PAGE_PLACEHOLDER)
                      ELSE r.last_value
        filename == render_filename(Get(schema, <<"name">>).s, path)
        png == render_figma_png(last_value, TEMP_RENDER_FOLDER \o <<"/">> \o filename, net)
    IN  IF png.err # "none"
        THEN [calls |-> png.calls, err |-> Err(png.err), filename |-> filename]
        ELSE IF r.last_key = None
        THEN [calls |-> png.calls,
              err |-> [kind |-> "ValueError_reference_not_found", path |-> path],
              filename |-> filename]
        ELSE [calls |-> png.calls, err |-> Err(png.err), filename |-> filename]

\* one iteration of the loop of render_figma_images over supported_schema_keys
\* (lines 93-121) for the path of index idx
render_path(schema, idx, net) ==
    LET path == supported_schema_keys[idx]
        r == resolve(schema, path)
        last_value == IF r.last_value.t = "null"
                      THEN Str(MISSING_FIGMA_PAGE_PLACEHOLDER)
                      ELSE r.last_value
        filename == render_filename(Get(schema, <<"name">>).s, path)
        png == render_figma_png(last_value, TEMP_RENDER_FOLDER \o <<"/">> \o filename, net)
    IN  IF r.last_key = None
        THEN [calls |-> <<>>, err |-> [kind |-> "ValueError_reference_not_found", path |-> path],
              filename |-> filename]
        ELSE [calls |-> png.calls, err |-> Err(png.err), filename |-> filename]

(***************************************************************************)
(* The document API as the program sees it: pages with a title and a       *)
(* version, attachments with an id, a page, a filename and a lifecycle     *)
(* state.                                                                  *)
(***************************************************************************)
\* page_id = confluence_page_url.split('/pages/')[1].split('/')[0]
page_id_of(schema) ==
    IF ~Has(schema, <<"confluence", "-", "page">>)
    THEN [err |-> "KeyError_confluence_page", id |-> <<>>]
    ELSE LET parts == str_split(Get(schema, <<"confluence", "-", "page">>).s, <<"/pages/">>)
         IN  IF Len(parts) < 2
             THEN [err |-> "IndexError_pages", id |-> <<>>]
             ELSE [err |-> "none", id |-> str_split(parts[2], <<"/">>)[1]]

\* download_current_confluence_page(object_schema); net is "ok" or "http_error"
download_current_confluence_page(schema, net) ==
    LET pid == page_id_of(schema)
        get == [Call("page_fetch") EXCEPT !.page = pid.id, !.ok = net = "ok"]
        wr == [Call("write_current_html") EXCEPT !.page = pid.id]
    IN  IF pid.err # "none" THEN [calls |-> <<>>, err |-> pid.err]
        ELSE IF net # "ok" THEN [calls |-> <<get>>, err |-> "HTTPError"]
        ELSE [calls |-> <<get, wr>>, err |-> "none"]

RECURSIVE SortedIds(_)
SortedIds(S) == IF S = {} THEN <<>> ELSE <<Min(S)>> \o SortedIds(S \ {Min(S)})

\* attachment_result.get("results", []): the ids of the current attachments of
\* that filename on the page
attachment_results(store, page_id, filename) ==
    SortedIds({a.id : a \in {b \in store : b.page = page_id /\ b.file = filename
                                                /\ b.st = "current"}})

\* the server after DELETE .../content/{id}?status={status}
deleted(store, id, status) ==
    IF status = "current"
    THEN {IF a.id = id /\ a.st = "current" THEN [a EXCEPT !.st = "trashed"] ELSE a : a \in store}
    ELSE {a \in store : ~(a.id = id /\ a.st = "trashed")}

UploadNet == {"ok", "get_error", "delete_current_error", "delete_trashed_error", "post_error"}

\* variant: the upload that moves the old attachment to the trash and leaves it there
upload_purges_nothing(page_id, filename, store, nid, net) ==
    LET results == attachment_results(store, page_id, filename)
        attachment_id == results[1]
        get == [Call("att_get") EXCEPT !.page = page_id, !.file = filename,
                                       !.n = Len(results), !.ok = net # "get_error",
                                       !.id = IF results # <<>> THEN attachment_id ELSE 0]
        del1 == [Call("att_delete") EXCEPT !.page = page_id, !.file = filename,
                     !.id = attachment_id, !.st = "current", !.ok = net # "delete_current_error"]
        del2 == [Call("att_delete") EXCEPT !.page = page_id, !.file = filename,
                     !.id = attachment_id, !.st = "trashed", !.ok = net # "delete_trashed_error"]
        post == [Call("att_post") EXCEPT !.page = page_id, !.file = filename,
                                        !.id = nid, !.ok = net # "post_error"]
        dels == IF results # <<>> THEN <<del1>> ELSE <<>>
        cleared == IF results # <<>>
                   THEN deleted(store, attachment_id, "current")
                   ELSE store
    IN  IF net = "get_error"
        THEN [calls |-> <<get>>, err |-> "HTTPError", store |-> store]
        ELSE IF results # <<>> /\ net = "delete_current_error"
        THEN [calls |-> <<get, del1>>, err |-> "HTTPError", store |-> store]
        ELSE IF results # <<>> /\ net = "delete_trashed_error"
        THEN [calls |-> <<get, del1>>, err |-> "HTTPError",
              store |-> deleted(store, attachment_id, "current")]
        ELSE IF net = "post_error"
        THEN [calls |-> <<get>> \o dels \o <<post>>, err |-> "HTTPError", store |-> cleared]
        ELSE [calls |-> <<get>> \o dels \o <<post>>, err |-> "none",
              store |-> cleared \cup {[id |-> nid, page |-> page_id, file |-> filename,
                                       st |-> "current"]}]

\* upload_image_version_to_confluence(page_id, image_path): its calls in order, the
\* exception it raises, and the server's attachments afterwards
upload_image_version_to_confluence(page_id, filename, store, nid, net) ==
    LET results == attachment_results(store, page_id, filename)
        attachment_id == results[1]
        get == [Call("att_get") EXCEPT !.page = page_id, !.file = filename,
                                       !.n = Len(results), !.ok = net # "get_error",
                                       !.id = IF results # <<>> THEN attachment_id ELSE 0]
        del1 == [Call("att_delete") EXCEPT !.page = page_id, !.file = filename,
                     !.id = attachment_id, !.st = "current", !.ok = net # "delete_current_error"]
        del2 == [Call("att_delete") EXCEPT !.page = page_id, !.file = filename,
                     !.id = attachment_id, !.st = "trashed", !.ok = net # "delete_trashed_error"]
        post == [Call("att_post") EXCEPT !.page = page_id, !.file = filename,
                                        !.id = nid, !.ok = net # "post_error"]
        dels == IF results # <<>> THEN <<del1, del2>> ELSE <<>>
        cleared == IF results # <<>>
                   THEN deleted(deleted(store, attachment_id, "current"), attachment_id, "trashed")
                   ELSE store
    IN  IF net = "get_error"
        THEN [calls |-> <<get>>, err |-> "HTTPError", store |-> store]
        ELSE IF results # <<>> /\ net = "delete_current_error"
        THEN [calls |-> <<get, del1>>, err |-> "HTTPError", store |-> store]
        ELSE IF results # <<>> /\ net = "delete_trashed_error"
        THEN [calls |-> <<get, del1, del2>>, err |-> "HTTPError",
              store |-> deleted(store, attachment_id, "current")]
        ELSE IF net = "post_error"
        THEN [calls |-> <<get>> \o dels \o <<post>>, err |-> "HTTPError", store |-> cleared]
        ELSE [calls |-> <<get>> \o dels \o <<post>>, err |-> "none",
              store |-> cleared \cup {[id |-> nid, page |-> page_id, file |-> filename,
                                       st |-> "current"]}]

(***************************************************************************)
(* populate_template.                                                      *)
(***************************************************************************)
Undefined == <<"Undefined">>

\* re.findall(r"\{\{.*?\}\}", text) from position i: the leftmost "{{" that a "}}"
\* closes on the same line, up to the nearest such "}}"; then on from behind it
Closers(text, i) ==
    {j \in (i + 2)..Len(text) :
        /\ MatchAt(text, <<"}", "}">>, j)
        /\ \A k \in (i + 2)..(j - 1) : text[k] # "\n"}

Openers(text, i) ==
    {k \in i..Len(text) : MatchAt(text, <<"{", "{">>, k) /\ Closers(text, k) # {}}

RECURSIVE FindallFrom(_, _)
FindallFrom(text, i) ==
    IF Openers(text, i) = {} THEN <<>>
    ELSE LET o == Min(Openers(text, i))
             c == Min(Closers(text, o))
         IN  <<SubSeq(text, o, c + 1)>> \o FindallFrom(text, c + 2)

unmatched_vars(text) == FindallFrom(text, 1)

\* variant: the iteration without the check that the key is in the text
populate_pair_unchecked(template, key, value) ==
    [status |-> "loop",
     text |-> str_replace(template, key, IF value = None THEN Undefined ELSE value)]

\* one iteration of the loop of populate_template (lines 220-225)
populate_pair(template, key, value) ==
    IF ~Contains(template, key)
    THEN [status |-> "KeyNotFound", text |-> template]
    ELSE [status |-> "loop",
          text |-> str_replace(template, key, IF value = None THEN Undefined ELSE value)]

\* variant: the end without the search for tokens that are left
populate_finish_unchecked(template) == [status |-> "returned", text |-> template]

\* the end of populate_template (lines 227-231)
populate_finish(template) ==
    IF unmatched_vars(template) # <<>>
    THEN [status |-> "Unmatched", text |-> template]
    ELSE [status |-> "returned", text |-> template]

RECURSIVE PopulateFrom(_, _, _)
PopulateFrom(template, data, i) ==
    IF i > Len(data) THEN populate_finish(template)
    ELSE LET r == populate_pair(template, data[i].key, data[i].value)
         IN  IF r.status # "loop" THEN r ELSE PopulateFrom(r.text, data, i + 1)

\* populate_template(template, data), data in dict order
populate_template(template, data) == PopulateFrom(template, data, 1)

(***************************************************************************)
(* The page composer (update_confluence_page, lines 280-391).  The three   *)
(* templates are read from confluence-templates/ each time.                *)
(***************************************************************************)
Tok(name) == <<"{", "{", name, "}", "}">>

WHITE == <<"#ffffff">>
LIGHT_BLUE == <<"#eaf4ff">>
LIGHT_RED == <<"#fff4f0">>
LIGHT_GREEN == <<"#edfff7">>

Pair(key, value) == [key |-> key, value |-> value]

\* a str or None of the schema as populate_template receives it
py_text(v) == IF v.t = "null" THEN None ELSE v.s

\* the data of the single-item block (lines 296-300)
single_data(schema) ==
    << Pair(Tok("highlight-colour"), WHITE),
       Pair(Tok("filename"),
            Get(schema, <<"name">>).s \o <<"-", "state", "-", "diagram", ".png">>),
       Pair(Tok("figma-link"), py_text(Get(schema, <<"state", "-", "diagram">>))) >>

\* the data of one three-column block (lines 305-315 and the four after it)
roles_data(schema, top, view) ==
    LET stem == Get(schema, <<"name">>).s \o <<"-", top, "-">> \o view \o <<"-">>
        node == Get(Get(schema, <<top>>), view)
    IN  << Pair(Tok("highlight-colour-column-1"), LIGHT_BLUE),
           Pair(Tok("highlight-colour-column-2"), LIGHT_RED),
           Pair(Tok("highlight-colour-column-3"), LIGHT_GREEN),
           Pair(Tok("filename-column-1"), stem \o <<"vendor", ".png">>),
           Pair(Tok("filename-column-2"), stem \o <<"operations", ".png">>),
           Pair(Tok("filename-column-3"), stem \o <<"client", ".png">>),
           Pair(Tok("figma-link-column-1"), py_text(Get(node, <<"vendor">>))),
           Pair(Tok("figma-link-column-2"), py_text(Get(node, <<"operations">>))),
           Pair(Tok("figma-link-column-3"), py_text(Get(node, <<"client">>))) >>

\* the composition: the fragments in source order, then the page; the first
\* populate_template that raises ends it
compose(schema, tpl, now) ==
    LET state_diagram == populate_template(tpl.single, single_data(schema))
        grid == populate_template(tpl.roles,
                    roles_data(schema, "desktop", <<"grid", "-", "view">>))
        details == populate_template(tpl.roles,
                    roles_data(schema, "desktop", <<"details", "-", "view">>))
        infocard == populate_template(tpl.roles,
                    roles_data(schema, "desktop", <<"infocard", "-", "view">>))
        mlist == populate_template(tpl.roles,
                    roles_data(schema, "mobile", <<"list", "-", "view">>))
        mdetails == populate_template(tpl.roles,
                    roles_data(schema, "mobile", <<"details", "-", "view">>))
        frags == <<state_diagram, grid, details, infocard, mlist, mdetails>>
        bad == {k \in 1..Len(frags) : frags[k].status # "returned"}
    IN  IF bad # {} THEN frags[Min(bad)]
        ELSE populate_template(tpl.page,
                << Pair(Tok("state-diagram"), state_diagram.text),
                   Pair(Tok("desktop-grid-table-section"), grid.text),
                   Pair(Tok("desktop-details-table-section"), details.text),
                   Pair(Tok("desktop-infocard-table-section"), infocard.text),
                   Pair(Tok("mobile-list-table-section"), mlist.text),
                   Pair(Tok("mobile-details-table-section"), mdetails.text),
                   Pair(Tok("last-updated"), now) >>)

(***************************************************************************)
(* Inputs: the schema files of ./schemas, the templates, the server.       *)
(***************************************************************************)
DigitOf(n) == <<"0", "1", "2", "3", "4">>[n + 1]

\* a design-tool share URL whose node-id is idx \div 4, sep, idx % 4
FigmaUrl(idx, sep) ==
    <<"https://www.", "figma.com/", "design", "/", "K", "?", "node-id=",
      DigitOf(idx \div 4), sep, DigitOf(idx % 4), "&t=x">>

PageUrl(page_id, name) ==
    <<"https://softwareone.atlassian.net/wiki/spaces/MPT", "/pages/">> \o page_id
        \o <<"/">> \o name

Entry(k, v) == [k |-> k, v |-> v]

\* v with the value at keys[i..] set to nv, mappings made on the way
RECURSIVE set_path(_, _, _, _)
set_path(v, keys, i, nv) ==
    IF i > Len(keys) THEN nv
    ELSE LET k == keys[i]
             child == IF Has(v, k) THEN Get(v, k) ELSE Dict({})
         IN  Dict({e \in v.m : e.k # k} \cup {Entry(k, set_path(child, keys, i + 1, nv))})

\* v without the key at keys[i..]
RECURSIVE del_path(_, _, _)
del_path(v, keys, i) ==
    IF i = Len(keys)
    THEN Dict({e \in v.m : e.k # keys[i]})
    ELSE Dict({e \in v.m : e.k # keys[i]}
                 \cup {Entry(keys[i], del_path(Get(v, keys[i]), keys, i + 1))})

IsPrefix(p, q) == Len(p) <= Len(q) /\ SubSeq(q, 1, Len(p)) = p

\* the segments of the 16 supported paths
RECURSIVE SegmentsUpTo(_)
SegmentsUpTo(n) ==
    IF n = 0 THEN <<>> ELSE Append(SegmentsUpTo(n - 1), path_keys(supported_schema_keys[n]))
AllSegments == SegmentsUpTo(NPaths)

\* the part of a schema below the keys `prefix`: the mapping of the next keys of the
\* supported paths, a link at the end of a path, null at the paths of `nulls`
RECURSIVE Tree(_, _)
Tree(prefix, nulls) ==
    LET below == {idx \in 1..NPaths : IsPrefix(prefix, AllSegments[idx])}
        here == {idx \in below : AllSegments[idx] = prefix}
    IN  IF here # {}
        THEN IF here \subseteq nulls THEN Null ELSE Str(FigmaUrl(Min(here), "-"))
        ELSE Dict({Entry(k, Tree(Append(prefix, k), nulls)) :
                      k \in {AllSegments[idx][Len(prefix) + 1] : idx \in below}})

Objects == {[name |-> <<"Foo">>, page |-> <<"12345">>],
            [name |-> <<"Bar">>, page |-> <<"67890">>]}
Foo == [name |-> <<"Foo">>, page |-> <<"12345">>]
Pages == {o.page : o \in Objects}

\* a schema whose 16 paths resolve, to null at the paths of `nulls`
Schema(o, nulls) ==
    Dict(Tree(<<>>, nulls).m
            \cup {Entry(<<"name">>, Str(o.name)),
                  Entry(<<"confluence", "-", "page">>, Str(PageUrl(o.page, o.name)))})

\* a schema with its 16 paths populated with valid links
ValidSchema(o) == Schema(o, {})

Prefix(idx, d) == SubSeq(AllSegments[idx], 1, d)
Depth(idx) == Len(AllSegments[idx])
Leaf(v, idx, nv) == set_path(v, AllSegments[idx], 1, nv)

ValidFoo == ValidSchema(Foo)

\* schemas whose 16 paths all resolve to a link or to null
ResolvingSchemas(o) ==
    {Schema(o, nulls) : nulls \in {{}, 1..NPaths} \cup {{idx} : idx \in 1..NPaths}}

\* schemas with one defect
DefectsOf(valid) ==
    UNION {{del_path(valid, Prefix(idx, d), 1) : d \in 1..Depth(idx)} : idx \in 1..NPaths}
        \cup UNION {{set_path(valid, Prefix(idx, d), 1, nv) :
                        d \in 1..(Depth(idx) - 1), nv \in {Null, Str(<<"x">>)}} :
                    idx \in 1..NPaths}
        \cup {Leaf(valid, idx, Str(<<>>)) : idx \in 1..NPaths}
        \cup {Leaf(valid, idx, Str(FigmaUrl(idx, ":"))) : idx \in 1..NPaths}
        \cup {Leaf(valid, 1, nv) :
                  nv \in {Str(<<"https://example.com/">>),
                          Str(<<"https://www.", "figma.com/", "design", "/", "K">>),
                          Dict({})}}
        \cup {del_path(valid, <<k>>, 1) : k \in {<<"name">>, <<"confluence", "-", "page">>}}
        \cup {set_path(valid, << <<"confluence", "-", "page">> >>, 1,
                       Str(<<"https://softwareone.atlassian.net/wiki/">>))}

DefectiveSchemas(o) == DefectsOf(ValidSchema(o))

\* the schemas of a run over several files
PlainSchemas == {ValidSchema(o) : o \in Objects}

\* the content of ./schemas: nothing, one file of any kind, Foo's valid file before
\* one to MaxFiles - 1 valid ones, or a file with a missing path before a valid one
Disks ==
    {<<>>} \cup {<<x>> : x \in ResolvingSchemas(Foo) \cup DefectiveSchemas(Foo)}
        \cup UNION {{<<ValidFoo>> \o rest : rest \in [1..n -> PlainSchemas]} :
                        n \in 1..(MaxFiles - 1)}
        \cup {<<del_path(ValidFoo, Prefix(2, 3), 1), ValidFoo>>}

\* confluence-templates/: the three fragments as shipped, and two damaged sets
GoodTemplates ==
    [single |-> <<"<single>">> \o Tok("highlight-colour") \o Tok("filename")
                   \o Tok("figma-link") \o <<"\n">>,
     roles |-> <<"<roles>">> \o Tok("highlight-colour-column-1")
                   \o Tok("highlight-colour-column-2") \o Tok("highlight-colour-column-3")
                   \o Tok("filename-column-1") \o Tok("filename-column-2")
                   \o Tok("filename-column-3") \o <<"\n">> \o Tok("figma-link-column-1")
                   \o Tok("figma-link-column-2") \o Tok("figma-link-column-3"),
     page |-> <<"<page>">> \o Tok("state-diagram") \o Tok("desktop-grid-table-section")
                   \o Tok("desktop-details-table-section")
                   \o Tok("desktop-infocard-table-section")
                   \o Tok("mobile-list-table-section")
                   \o Tok("mobile-details-table-section") \o Tok("last-updated")]

TemplateSets ==
    {GoodTemplates,
     [GoodTemplates EXCEPT !.roles = str_replace(@, Tok("figma-link-column-3"), <<>>)],
     [GoodTemplates EXCEPT !.page = @ \o Tok("owner")]}

Now == <<"Nov 03, 2026 at 10:00:00">>

Att(id, page, file) == [id |-> id, page |-> page, file |-> file, st |-> "current"]

\* what the target page holds before the run: nothing, two attachments of the
\* first filename, or all 16 files of an earlier run
Stores ==
    {{},
     {Att(1, Foo.page, render_filename(Foo.name, supported_schema_keys[1])),
      Att(2, Foo.page, render_filename(Foo.name, supported_schema_keys[1]))},
     {Att(idx, Foo.page, render_filename(Foo.name, supported_schema_keys[idx])) :
         idx \in 1..NPaths}}

InitialPages ==
    [p \in Pages |-> IF p = Foo.page THEN [title |-> "Foo page", version |-> 3]
                      ELSE [title |-> "Bar page", version |-> 7]]

(***************************************************************************)
(* The run: main and what it calls, one action per call.                   *)
(***************************************************************************)
Idle == /\ t_template = <<>> /\ t_data = <<>> /\ t_text = <<>> /\ t_i = 0
        /\ t_seen = <<>> /\ t_status = "idle" /\ t_round = 0 /\ t_first = <<>>
        /\ u_url = <<>> /\ u_pc = "idle" /\ u_node = <<>> /\ u_key = <<>>

PipeIdle == /\ disk = <<>> /\ fi = 0 /\ pc = "idle" /\ object_schema = Null
            /\ rendered_files = <<>> /\ ui = 0 /\ page_template = <<>>
            /\ got = [title |-> "", version |-> 0] /\ err = NoErr /\ log = <<>>
            /\ att = {} /\ nextId = 0 /\ pages = InitialPages /\ edits = 0

\* the directory and the server before the run; attachments of an earlier run are
\* there for the run over the one valid schema
Init ==
    /\ disk \in Disks
    /\ fi = 1
    /\ pc = IF Len(disk) = 0 THEN "done" ELSE "load"
    /\ object_schema = Null
    /\ rendered_files = <<>>
    /\ ui = 0
    /\ page_template = <<>>
    /\ got = [title |-> "", version |-> 0]
    /\ err = NoErr
    /\ log = <<>>
    /\ att \in IF disk = <<ValidFoo>> THEN Stores ELSE {{}}
    /\ nextId = NPaths + 1
    /\ pages = InitialPages
    /\ edits = 0
    /\ Idle

\* variant: an exception that is caught, the call being tried again
Raise_and_retry(e, calls, idx) ==
    /\ pc' = pc
    /\ err' = e
    /\ log' = log \o Stamp(calls, fi, idx)

\* an exception nothing catches: the run ends
Raise(e, calls, idx) ==
    /\ pc' = "failed"
    /\ err' = e
    /\ log' = log \o Stamp(calls, fi, idx)

\* main, lines 415-426, and the head of render_figma_images, lines 84-92
LoadSchema ==
    /\ pc = "load"
    /\ object_schema' = disk[fi]
    /\ rendered_files' = <<>>
    /\ ui' = 0
    /\ page_template' = <<>>
    /\ IF Has(disk[fi], <<"name">>)
       THEN pc' = "render" /\ UNCHANGED <<err, log>>
       ELSE Raise(Err("KeyError_name"), <<>>, 0)
    /\ UNCHANGED <<disk, fi, got, att, nextId, pages, edits, tplVars, urlVars>>

\* render_figma_images: one path of supported_schema_keys
RenderPath ==
    /\ pc = "render"
    /\ \E net \in RenderNet :
          LET idx == Len(rendered_files) + 1
              r == render_path(object_schema, idx, net)
          IN  IF r.err.kind = "none"
              THEN /\ rendered_files' = Append(rendered_files, r.filename)
                   /\ log' = log \o Stamp(r.calls, fi, idx)
                   /\ pc' = IF idx = NPaths THEN "download" ELSE "render"
                   /\ err' = err
              ELSE /\ Raise(r.err, r.calls, idx)
                   /\ rendered_files' = rendered_files
    /\ UNCHANGED <<disk, fi, object_schema, ui, page_template, got, att, nextId, pages,
                   edits, tplVars, urlVars>>

\* main, line 430
DownloadPage ==
    /\ pc = "download"
    /\ \E net \in {"ok", "http_error"} :
          LET r == download_current_confluence_page(object_schema, net)
          IN  IF r.err = "none"
              THEN /\ log' = log \o Stamp(r.calls, fi, 0)
                   /\ pc' = "upload"
                   /\ ui' = 1
                   /\ err' = err
              ELSE Raise(Err(r.err), r.calls, 0) /\ ui' = ui
    /\ UNCHANGED <<disk, fi, object_schema, rendered_files, page_template, got, att,
                   nextId, pages, edits, tplVars, urlVars>>

\* update_confluence_page, lines 274-278: one rendered file
UploadImage ==
    /\ pc = "upload"
    /\ \E net \in UploadNet :
          LET r == upload_image_version_to_confluence(page_id_of(object_schema).id,
                       rendered_files[ui], att, nextId, net)
          IN  /\ att' = r.store
              /\ nextId' = nextId + 1
              /\ IF r.err = "none"
                 THEN /\ log' = log \o Stamp(r.calls, fi, ui)
                      /\ ui' = ui + 1
                      /\ pc' = IF ui = Len(rendered_files) THEN "compose" ELSE "upload"
                      /\ err' = err
                 ELSE Raise(Err(r.err), r.calls, ui) /\ ui' = ui
    /\ UNCHANGED <<disk, fi, object_schema, rendered_files, page_template, got, pages,
                   edits, tplVars, urlVars>>

\* update_confluence_page, lines 280-391
Compose ==
    /\ pc = "compose"
    /\ \E tpl \in TemplateSets :
          LET r == compose(object_schema, tpl, Now)
              wr == [Call("write_updated_html") EXCEPT !.page = page_id_of(object_schema).id]
          IN  IF r.status = "returned"
              THEN /\ page_template' = r.text
                   /\ log' = log \o Stamp(<<Call("compose"), wr>>, fi, 0)
                   /\ pc' = "publish_get"
                   /\ err' = err
              ELSE /\ Raise(Err(r.status), <<[Call("compose") EXCEPT !.ok = FALSE]>>, 0)
                   /\ page_template' = page_template
    /\ UNCHANGED <<disk, fi, object_schema, rendered_files, ui, got, att, nextId, pages,
                   edits, tplVars, urlVars>>

\* update_page_content, lines 236-244
PublishGet ==
    /\ pc = "publish_get"
    /\ LET pid == page_id_of(object_schema).id
           get(ok) == [Call("content_get") EXCEPT !.page = pid, !.title = pages[pid].title,
                                                  !.ver = pages[pid].version, !.ok = ok]
       IN  \/ /\ got' = pages[pid]
              /\ log' = log \o Stamp(<<get(TRUE)>>, fi, 0)
              /\ pc' = "publish_put"
              /\ err' = err
           \/ /\ Raise(Err("HTTPError"), <<get(FALSE)>>, 0)
              /\ got' = got
    /\ UNCHANGED <<disk, fi, object_schema, rendered_files, ui, page_template, att, nextId,
                   pages, edits, tplVars, urlVars>>

\* variant: the payload with the version number of the GET sent back unchanged
put_payload_same_version(page_id, new_content, current) ==
    [id |-> page_id, title |-> current.title, value |-> new_content,
     number |-> current.version]

\* the payload of update_page_content, lines 246-259
put_payload(page_id, new_content, current) ==
    [id |-> page_id, title |-> current.title, value |-> new_content,
     number |-> current.version + 1]

\* update_page_content, lines 260-262, and the end of the loop of main.  The server
\* takes the new version only if it is the one after its own.
PublishPut ==
    /\ pc = "publish_put"
    /\ LET pid == page_id_of(object_schema).id
           payload == put_payload(pid, page_template, got)
           put(ok) == [Call("content_put") EXCEPT !.page = payload.id,
                           !.title = payload.title, !.ver = payload.number, !.ok = ok]
       IN  \/ /\ payload.number = pages[pid].version + 1
              /\ pages' = [pages EXCEPT ![pid] = [title |-> payload.title,
                                                  version |-> payload.number]]
              /\ log' = log \o Stamp(<<put(TRUE)>>, fi, 0)
              /\ err' = err
              /\ IF fi = Len(disk)
                 THEN pc' = "done" /\ fi' = fi
                 ELSE pc' = "load" /\ fi' = fi + 1
           \/ /\ Raise(Err("HTTPError"), <<put(FALSE)>>, 0)
              /\ UNCHANGED <<pages, fi>>
    /\ UNCHANGED <<disk, object_schema, rendered_files, ui, page_template, got, att,
                   nextId, edits, tplVars, urlVars>>

\* somebody else saves the page the run is about to publish (seen by the program
\* only through the GET and the PUT of update_page_content)
ExternalEdit ==
    /\ pc \in {"publish_get", "publish_put"}
    /\ edits < MaxEdits
    /\ edits' = edits + 1
    /\ LET pid == page_id_of(object_schema).id
       IN  pages' = [pages EXCEPT ![pid] = [title |-> "Renamed",
                                           version |-> pages[pid].version + 1]]
    /\ UNCHANGED <<disk, fi, pc, object_schema, rendered_files, ui, page_template, got,
                   err, log, att, nextId, tplVars, urlVars>>

Next ==
    \/ LoadSchema
    \/ RenderPath
    \/ DownloadPage
    \/ UploadImage
    \/ Compose
    \/ PublishGet
    \/ PublishPut
    \/ ExternalEdit

Spec == Init /\ [][Next]_vars

(***************************************************************************)
(* populate_template on its own: the text is built from at most MaxPieces  *)
(* pieces, the data has at most MaxPairs pairs with different keys, and a  *)
(* text the first application returns is given to a second one with the    *)
(* same data.                                                              *)
(***************************************************************************)
Pieces == {Tok("k"), Tok("j"), <<"x">>, <<"{", "{", "\n", "}", "}">>}
TplKeys == {Tok("k"), Tok("j"), <<"x">>}
TplValues == {None, Tok("j"), <<"x", "x">>}

RECURSIVE Texts(_)
Texts(n) == IF n = 0 THEN {<<>>}
            ELSE Texts(n - 1) \cup {t \o q : t \in Texts(n - 1), q \in Pieces}

DataLists ==
    UNION {{d \in [1..n -> [key : TplKeys, value : TplValues]] :
               \A a, b \in 1..n : a # b => d[a].key # d[b].key} : n \in 0..MaxPairs}

InitTpl ==
    /\ PipeIdle
    /\ u_url = <<>> /\ u_pc = "idle" /\ u_node = <<>> /\ u_key = <<>>
    /\ t_template \in Texts(MaxPieces)
    /\ t_data \in DataLists
    /\ t_text = t_template
    /\ t_i = 1
    /\ t_seen = <<>>
    /\ t_status = "loop"
    /\ t_round = 1
    /\ t_first = <<>>

\* populate_template, lines 220-225: the next pair of data
PopulatePair ==
    /\ t_status = "loop"
    /\ t_i <= Len(t_data)
    /\ LET r == populate_pair(t_text, t_data[t_i].key, t_data[t_i].value)
       IN  /\ t_text' = r.text
           /\ t_status' = r.status
    /\ t_seen' = Append(t_seen, t_text)
    /\ t_i' = t_i + 1
    /\ UNCHANGED <<t_template, t_data, t_round, t_first, pipeVars, urlVars>>

\* populate_template, lines 227-231
PopulateFinish ==
    /\ t_status = "loop"
    /\ t_i > Len(t_data)
    /\ t_status' = populate_finish(t_text).status
    /\ UNCHANGED <<t_template, t_data, t_text, t_i, t_seen, t_round, t_first, pipeVars,
                   urlVars>>

\* the caller applies populate_template to the text it got, with the same data
PopulateAgain ==
    /\ t_status = "returned"
    /\ t_round = 1
    /\ t_round' = 2
    /\ t_first' = t_text
    /\ t_i' = 1
    /\ t_seen' = <<>>
    /\ t_status' = "loop"
    /\ UNCHANGED <<t_template, t_data, t_text, pipeVars, urlVars>>

NextTpl == PopulatePair \/ PopulateFinish \/ PopulateAgain

SpecTpl == InitTpl /\ [][NextTpl]_vars

(***************************************************************************)
(* get_frame_id_from_url and the lookup of render_figma_png on their own:  *)
(* share URLs whose node-id value has at most MaxNodeLen symbols.          *)
(***************************************************************************)
NodeSyms == {"1", "2", "-", ":"}

RECURSIVE NodeTexts(_)
NodeTexts(n) == IF n = 0 THEN {<<>>}
                ELSE NodeTexts(n - 1) \cup {t \o <<c>> : t \in NodeTexts(n - 1), c \in NodeSyms}

ShareUrls ==
    {<<"https://www.", "figma.com/", "design", "/", "K", "?">> \o q \o n \o tail :
        q \in {<<"node-id=">>, <<"page-id=">>}, n \in NodeTexts(MaxNodeLen),
        tail \in {<<>>, <<"&t=x">>}}

InitUrl ==
    /\ PipeIdle
    /\ t_template = <<>> /\ t_data = <<>> /\ t_text = <<>> /\ t_i = 0
    /\ t_seen = <<>> /\ t_status = "idle" /\ t_round = 0 /\ t_first = <<>>
    /\ u_url \in ShareUrls
    /\ u_pc = "start"
    /\ u_node = <<>>
    /\ u_key = <<>>

\* render_figma_png, lines 53-55
ExtractNode ==
    /\ u_pc = "start"
    /\ u_node' = get_frame_id_from_url(u_url)
    /\ u_pc' = IF u_node' = None \/ u_node' = <<>> THEN "ValueError_node_id" ELSE "extracted"
    /\ UNCHANGED <<u_url, u_key, pipeVars, tplVars>>

\* render_figma_png, line 72
LookupImage ==
    /\ u_pc = "extracted"
    /\ u_key' = images_key(u_node)
    /\ u_pc' = IF images_key(u_node) = api_node_key(u_node) THEN "looked_up"
               ELSE "KeyError_images"
    /\ UNCHANGED <<u_url, u_node, pipeVars, tplVars>>

NextUrl == ExtractNode \/ LookupImage

SpecUrl == InitUrl /\ [][NextUrl]_vars

(***************************************************************************)
(* Properties.  What a schema holds at a path is read off the schema file  *)
(* itself, segment by segment.                                             *)
(***************************************************************************)
RECURSIVE Resolves(_, _, _)
Resolves(v, keys, i) ==
    IF i > Len(keys) THEN TRUE
    ELSE Has(v, keys[i]) /\ Resolves(Get(v, keys[i]), keys, i + 1)

RECURSIVE Final(_, _, _)
Final(v, keys, i) == IF i > Len(keys) THEN v ELSE Final(Get(v, keys[i]), keys, i + 1)

\* the paths of which some segment is absent from the schema
MissingPaths(schema) == {idx \in 1..NPaths : ~Resolves(schema, AllSegments[idx], 1)}

\* the schema files main has loaded so far
Loaded == {f \in 1..Len(disk) : f < fi \/ (f = fi /\ pc # "load")}

RenderOps == {"render_figma_png", "figma_images", "image_download", "write_png"}
NetworkErrors == {"RuntimeError_403", "HTTPError", "MissingSchema"}

ReferenceNotFound(idx) ==
    [kind |-> "ValueError_reference_not_found", path |-> supported_schema_keys[idx]]

\* the run failed while it was processing path idx of the current schema
FailedAt(idx) == pc = "failed" /\ err.kind # "KeyError_name" /\ Len(rendered_files) = idx - 1

\* C1: for each of the 16 paths of a loaded schema of which a segment is absent: no
\* render call, API call, download or file write is ever made for that path or a
\* later one, the render loop never gets past it, and when the run fails at that
\* path the error is "Reference not found" naming exactly that path.
C1_ReferenceNotFound ==
    \A f \in Loaded :
        \A idx \in MissingPaths(disk[f]) :
            /\ \A k \in DOMAIN log :
                   (log[k].f = f /\ log[k].op \in RenderOps) => log[k].idx < idx
            /\ f = fi
            /\ pc \in {"render", "failed"}
            /\ Len(rendered_files) < idx
            /\ FailedAt(idx) => err = ReferenceNotFound(idx)

\* C1 witness: the run failed with "Reference not found" at a path that is not the
\* first, after rendering the paths before it
C1_Witness ==
    /\ pc = "failed"
    /\ Len(rendered_files) >= 1
    /\ err = ReferenceNotFound(Len(rendered_files) + 1)
    /\ Len(rendered_files) + 1 \in MissingPaths(disk[fi])

\* the value the schema file f holds at the path of a log entry
Held(e) == Final(disk[e.f], AllSegments[e.idx], 1)

\* the run failed in the render that log entry e opens
FailedIn(e) == e.f = fi /\ FailedAt(e.idx)

\* C2 (as stated): for every path that resolves to null or to the empty string the
\* placeholder is the URL passed to the renderer, and a failure of that render is a
\* failure of the network only.
C2_Original ==
    \A k \in DOMAIN log :
        (log[k].op = "render_figma_png" /\ Held(log[k]) \in {Null, Str(<<>>)})
            => /\ log[k].url = MISSING_FIGMA_PAGE_PLACEHOLDER
               /\ FailedIn(log[k]) => err.kind \in NetworkErrors

\* C2 (amended): for every path that resolves to null the placeholder is the URL
\* passed to the renderer and a failure of that render is a failure of the network
\* only; an empty string is passed to the renderer as it is, and the run fails there
\* with "Could not extract Figma file key from URL" before any API call.
C2_PlaceholderForNull ==
    \A k \in DOMAIN log :
        log[k].op = "render_figma_png"
            => /\ Resolves(disk[log[k].f], AllSegments[log[k].idx], 1)
               /\ Held(log[k]) = Null
                    => /\ log[k].url = MISSING_FIGMA_PAGE_PLACEHOLDER
                       /\ log[k].st = "str"
                       /\ FailedIn(log[k]) => err.kind \in NetworkErrors
               /\ Held(log[k]) = Str(<<>>)
                    => /\ log[k].url = <<>>
                       /\ k = Len(log)
                       /\ FailedIn(log[k])
                       /\ err.kind = "ValueError_file_key"

\* C2 witness: a null link was rendered from the placeholder and the loop went on
\* to the next path
C2_Witness ==
    \E k \in DOMAIN log :
        /\ log[k].op = "render_figma_png"
        /\ log[k].f = fi
        /\ Held(log[k]) = Null
        /\ log[k].url = MISSING_FIGMA_PAGE_PLACEHOLDER
        /\ Len(rendered_files) > log[k].idx
        /\ \E j \in DOMAIN log : j > k /\ log[j].op = "render_figma_png" /\ log[j].f = fi

\* C3 (as stated): a schema of which some path fails to resolve sees no call to the
\* rendering API and no image file write.
C3_Original ==
    \A f \in Loaded :
        MissingPaths(disk[f]) # {}
            => \A k \in DOMAIN log :
                   log[k].f = f => log[k].op \notin {"figma_images", "write_png"}

\* C3 (amended): the paths are resolved one at a time, each right before its own
\* render.  For a schema of which some path fails to resolve, no rendering call and
\* no file write happens for the first such path or a later one, and nothing but
\* rendering happens at all (no page fetch, attachment call, composition or
\* publish); the paths before it are rendered, API call and file write, before the
\* failure is found.
C3_ResolvedOneByOne ==
    \A f \in Loaded :
        MissingPaths(disk[f]) # {}
            => LET m == Min(MissingPaths(disk[f]))
               IN  /\ \A k \in DOMAIN log :
                          log[k].f = f => log[k].op \in RenderOps /\ log[k].idx < m
                   /\ (pc = "failed" /\ err = ReferenceNotFound(m))
                        => \A idx \in 1..(m - 1) :
                               \A op \in {"figma_images", "write_png"} :
                                   \E k \in DOMAIN log :
                                       /\ log[k].f = f /\ log[k].idx = idx
                                       /\ log[k].op = op /\ log[k].ok

\* C3 witness: a schema with an unresolved path for which image files were written
\* before the failure
C3_Witness ==
    /\ pc = "failed"
    /\ err.kind = "ValueError_reference_not_found"
    /\ MissingPaths(disk[fi]) # {}
    /\ \E k \in DOMAIN log : log[k].f = fi /\ log[k].op = "write_png"

AttOps == {"att_get", "att_delete", "att_post"}

\* log entries j and k are calls for the same rendered file of the same schema
SameFile(j, k) ==
    /\ log[j].f = log[k].f /\ log[j].idx = log[k].idx
    /\ log[j].file = log[k].file /\ log[j].page = log[k].page

\* the name under which path idx of schema file f was written by the renderer
WrittenName(f, idx) ==
    LET k == CHOOSE j \in DOMAIN log :
                 log[j].f = f /\ log[j].idx = idx /\ log[j].op = "write_png"
    IN  SubSeq(log[k].file, 3, Len(log[k].file))

EarlierPuts(k) ==
    {j \in 1..(k - 1) : log[j].op = "content_put" /\ log[j].ok /\ log[j].page = log[k].page}

\* C7: every PUT comes right after the successful GET of the same schema, for the
\* same page, with the title that GET returned and its version number plus one;
\* there is at most one PUT per schema, and a failed GET is the last call of the
\* run.  When nobody else saved the page and the run has not published it before,
\* the version of that GET is the one the page had before the run.
C7_NextVersion ==
    \A k \in DOMAIN log :
        /\ log[k].op = "content_put"
             => /\ k > 1
                /\ log[k - 1].op = "content_get"
                /\ log[k - 1].ok
                /\ log[k - 1].f = log[k].f
                /\ log[k - 1].page = log[k].page
                /\ log[k].title = log[k - 1].title
                /\ log[k].ver = log[k - 1].ver + 1
                /\ \A j \in DOMAIN log :
                       (log[j].op = "content_put" /\ log[j].f = log[k].f) => j = k
                /\ (edits = 0 /\ EarlierPuts(k) = {})
                     => /\ log[k - 1].ver = InitialPages[log[k].page].version
                        /\ log[k].title = InitialPages[log[k].page].title
                /\ log[k].ok
                     => \/ k = Len(log) /\ pc = "done" /\ log[k].f = Len(disk)
                        \/ k = Len(log) /\ fi = log[k].f + 1
                        \/ k < Len(log) /\ log[k + 1].f = log[k].f + 1
        /\ (log[k].op = "content_get" /\ ~log[k].ok) => k = Len(log) /\ pc = "failed"

\* C7 witness: a page nobody else saved was published as the version after the one
\* it had before the run
C7_Witness ==
    \E k \in DOMAIN log :
        /\ log[k].op = "content_put" /\ log[k].ok
        /\ edits = 0
        /\ log[k].ver = InitialPages[log[k].page].version + 1
        /\ pages[log[k].page].version = log[k].ver

\* C8: the calls of the run are those of schema file 1, then those of file 2, and
\* so on; a file is begun only after the publish of the file before it succeeded;
\* a call that fails is the last call of the run, whatever the step and whatever
\* files are left: the run has stopped, and no step is taken after it.
C8_FailureEndsRun ==
    /\ \A k \in DOMAIN log :
           /\ log[k].f \in 1..fi
           /\ ~log[k].ok => k = Len(log) /\ pc = "failed" /\ log[k].f = fi
           /\ k < Len(log)
                => /\ log[k + 1].f \in {log[k].f, log[k].f + 1}
                   /\ log[k + 1].f # log[k].f => log[k].op = "content_put"
    /\ \A f \in 1..(fi - 1) :
           \E k \in DOMAIN log : log[k].f = f /\ log[k].op = "content_put" /\ log[k].ok
    /\ pc = "failed" => err # NoErr /\ fi \in 1..Len(disk) /\ ~ENABLED Next
    /\ pc # "failed" => err = NoErr

\* C8 witness: the first of two schema files failed after some of its calls, and the
\* second was never begun
C8_Witness ==
    /\ pc = "failed"
    /\ fi = 1
    /\ Len(disk) = 2
    /\ log # <<>>
    /\ ~log[Len(log)].ok
    /\ ~ENABLED Next

\* the steps of a schema file whose steps all succeed, as (call, path or file index)
Step(op, idx) == [op |-> op, idx |-> idx]

RECURSIVE RenderSteps(_)
RenderSteps(n) ==
    IF n = 0 THEN <<>>
    ELSE RenderSteps(n - 1) \o <<Step("render_figma_png", n), Step("figma_images", n),
                                 Step("image_download", n), Step("write_png", n)>>

RECURSIVE UploadSteps(_)
UploadSteps(n) ==
    IF n = 0 THEN <<>>
    ELSE UploadSteps(n - 1) \o <<Step("att_get", n), Step("att_post", n)>>

ExpectedSteps ==
    RenderSteps(NPaths)
        \o <<Step("page_fetch", 0), Step("write_current_html", 0)>>
        \o UploadSteps(NPaths)
        \o <<Step("compose", 0), Step("write_updated_html", 0),
             Step("content_get", 0), Step("content_put", 0)>>

\* the calls made for schema file f, the deletes of old attachments left out
IsStepOf(e, f) == e.f = f /\ e.op # "att_delete"

StepsOf(f) ==
    LET Keep(e) == IsStepOf(e, f)
        kept == SelectSeq(log, Keep)
    IN  [k \in 1..Len(kept) |-> Step(kept[k].op, kept[k].idx)]

RECURSIVE Joined(_, _)
Joined(parts, i) ==
    IF i > Len(parts) THEN <<>>
    ELSE (IF i = 1 THEN <<>> ELSE <<"-">>) \o parts[i] \o Joined(parts, i + 1)

\* {object-name}-{path-with-dots-as-dashes}.png
ExpectedName(schema, idx) ==
    Final(schema, << <<"name">> >>, 1).s \o <<"-">> \o Joined(AllSegments[idx], 1)
        \o <<".png">>

\* the page a schema names: the one whose id stands behind /pages/ in confluence-page
TargetPage(schema) ==
    CHOOSE p \in Pages :
        Contains(Final(schema, << <<"confluence", "-", "page">> >>, 1).s,
                 <<"/pages/">> \o p \o <<"/">>)

\* C9: the calls for each schema file are a beginning of the fixed sequence: the
\* 16 renders in the order of supported_schema_keys, the fetch of the current page,
\* the 16 uploads in the same order, the composition, the publish; all of it for a
\* file whose steps all succeeded.  Every call before the last one succeeded.  Each
\* render is written to build/{object-name}-{path-with-dots-as-dashes}.png, and each
\* upload sends the file of that name to the page named by confluence-page.
C9_FixedOrder ==
    /\ \A f \in 1..Len(disk) :
           /\ IsPrefix(StepsOf(f), ExpectedSteps)
           /\ (f < fi \/ pc = "done") => StepsOf(f) = ExpectedSteps
    /\ \A k \in DOMAIN log :
           /\ k < Len(log) => log[k].ok
           /\ log[k].op \in {"render_figma_png", "write_png"}
                => log[k].file = <<"build", "/">> \o ExpectedName(disk[log[k].f], log[k].idx)
           /\ log[k].op \in AttOps
                => /\ log[k].file = ExpectedName(disk[log[k].f], log[k].idx)
                   /\ log[k].page = TargetPage(disk[log[k].f])
           /\ log[k].op \in {"page_fetch", "content_get", "content_put"}
                => log[k].page = TargetPage(disk[log[k].f])

\* C9 witness: a run over at least one schema file ended with all steps done
C9_Witness ==
    /\ pc = "done"
    /\ Len(disk) >= 1
    /\ StepsOf(Len(disk)) = ExpectedSteps
    /\ log[Len(log)].op = "content_put" /\ log[Len(log)].ok

\* the text given to the application of populate_template that is under way
Argument == IF t_round = 1 THEN t_template ELSE t_first

\* the text holds "{{", then anything but a line break, then "}}"
HasToken(text) ==
    \E a, b \in 1..Len(text) :
        /\ b >= a + 2
        /\ text[a] = "{" /\ text[a + 1] = "{"
        /\ b + 1 <= Len(text)
        /\ text[b] = "}" /\ text[b + 1] = "}"
        /\ \A c \in (a + 2)..(b - 1) : text[c] # "\n"

\* the text after the i-th pair was applied
TextAfter(i) == IF i < Len(t_seen) THEN t_seen[i + 1] ELSE t_text

Shown(value) == IF value = None THEN <<"Undefined">> ELSE value

\* C4 (as stated): a call returns only if every key of data is in the template text
\* it was given, and only a text without a {{...}} token.
C4_Original ==
    t_status = "returned"
        => /\ \A i \in DOMAIN t_data : Contains(Argument, t_data[i].key)
           /\ ~HasToken(t_text)

\* C4 (amended): the pairs are applied in order, each to the text the pairs before it
\* left.  The call fails at the first pair whose key is not in that text (a key the
\* template does not hold but the value of an earlier pair brought in is found);
\* otherwise every occurrence of the key is replaced by the value, by the literal
\* text Undefined for a null value.  After the last pair the call fails if the text
\* holds a {{...}} token on one line, and returns the text otherwise.
C4_KeyInRunningText ==
    /\ \A i \in DOMAIN t_seen :
           /\ i = 1 => t_seen[i] = Argument
           /\ IF Contains(t_seen[i], t_data[i].key)
              THEN /\ TextAfter(i) = str_replace(t_seen[i], t_data[i].key,
                                                 Shown(t_data[i].value))
                   /\ i = Len(t_seen) => t_status \in {"loop", "Unmatched", "returned"}
              ELSE /\ i = Len(t_seen)
                   /\ t_status = "KeyNotFound"
                   /\ t_text = t_seen[i]
    /\ t_status = "KeyNotFound" => t_seen # <<>>
    /\ t_status \in {"Unmatched", "returned"} => Len(t_seen) = Len(t_data)
    /\ t_status = "Unmatched" => HasToken(t_text)
    /\ t_status = "returned" => ~HasToken(t_text)
    /\ t_seen = <<>> => t_text = Argument

\* C4 witness: a call returned although a key is not in the template, a null value
\* shown as Undefined
C4_Witness ==
    /\ t_status = "returned"
    /\ t_round = 1
    /\ \E i \in DOMAIN t_data : ~Contains(t_template, t_data[i].key)
    /\ \E i \in DOMAIN t_data : t_data[i].value = None
    /\ Contains(t_text, <<"Undefined">>)

\* a first application of a single pair to a text that holds its key once has
\* returned, and the second application to its result has applied the pair
TwiceApplied ==
    /\ t_round = 2
    /\ Len(t_data) = 1
    /\ Count(t_template, t_data[1].key) = 1
    /\ Len(t_seen) = 1

NodeText ==
    LET at == CHOOSE i \in DOMAIN u_url : u_url[i] = "node-id="
    IN  SubSeq(u_url, at + 1,
               Max({j \in at..Len(u_url) : \A c \in (at + 1)..j : u_url[c] \in NodeClass}))

\* digits separated by "-" or by ":"
WellFormed(n) ==
    /\ n # <<>>
    /\ n[1] \in Digits /\ n[Len(n)] \in Digits
    /\ \A c \in 1..(Len(n) - 1) : n[c] \in Digits \/ n[c + 1] \in Digits

\* the same digits joined by ":"
ColonForm(n) == [c \in DOMAIN n |-> IF n[c] = "-" THEN ":" ELSE n[c]]

\* C10 (as stated): for a URL whose node-id is digits separated by "-" or by ":",
\* the key looked up in the answer of the rendering API is the colon form of that
\* node-id, so the lookup finds the image whichever separator the URL used.
C10_ColonKey ==
    (/\ u_pc \notin {"start", "extracted"}
     /\ \E i \in DOMAIN u_url : u_url[i] = "node-id="
     /\ WellFormed(NodeText))
        => /\ u_key = ColonForm(NodeText)
           /\ u_pc = "looked_up"

====
